---- MODULE Spec2Model ----
(***************************************************************************)
(* Model of the refactored grocery inventory (src/inventory.ts): Item      *)
(* objects on a heap, the updater strategies, the updater lookup by name,  *)
(* and StoreInventory (constructor, getItems, updateQuality).              *)
(*                                                                         *)
(* Item objects and arrays are heap cells with an identity, so that a      *)
(* reference shared between the inventory and its caller is visible.       *)
(* Strings are sequences of character codes, so that toLowerCase and       *)
(* startsWith are computed, not assumed.                                   *)
(***************************************************************************)
EXTENDS Integers, Sequences, FiniteSets, TLC

VARIABLES
    objs,        \* heap of Item objects: objs[o] = [name, sellIn, quality]
    arrs,        \* heap of arrays: arrs[a] = sequence of Item references
    inputItems,  \* the caller's array that was passed to the constructor
    items,       \* StoreInventory.items (this.items): an array reference
    returned,    \* the array last returned to the caller (0: none yet)
    passed,      \* the Item objects that were passed to the constructor
    days,        \* number of updateQuality calls made so far
    callerOps    \* number of writes the caller made through its references

vars == <<objs, arrs, inputItems, items, returned, passed, days, callerOps>>

----------------------------------------------------------------------------
(* Bounds of the model *)

MaxItems == 2        \* longest list passed to the constructor
MaxDays == 6         \* updateQuality calls in one run
MaxCallerOps == 2    \* caller writes in one run

----------------------------------------------------------------------------
(* Strings *)

Apple == <<65, 112, 112, 108, 101>>
InstantRaman == <<73, 110, 115, 116, 97, 110, 116, 32, 82, 97, 109, 97, 110>>
CheddarCheese == <<67, 104, 101, 100, 100, 97, 114, 32, 67, 104, 101, 101, 115, 101>>
InstantRamen == <<73, 110, 115, 116, 97, 110, 116, 32, 82, 97, 109, 101, 110>>
OrganicApple == <<79, 114, 103, 97, 110, 105, 99, 32, 65, 112, 112, 108, 101>>
ORGANIC == <<79, 82, 71, 65, 78, 73, 67>>

\* the literals of the updater lookup
cheddar_cheese == <<99, 104, 101, 100, 100, 97, 114, 32, 99, 104, 101, 101, 115, 101>>
instant_ramen == <<105, 110, 115, 116, 97, 110, 116, 32, 114, 97, 109, 101, 110>>
organic == <<111, 114, 103, 97, 110, 105, 99>>

\* String.prototype.toLowerCase on the ASCII range: A..Z become a..z
toLowerCase(s) ==
    [i \in 1..Len(s) |-> IF s[i] \in 65..90 THEN s[i] + 32 ELSE s[i]]

\* String.prototype.startsWith
startsWith(s, prefix) ==
    /\ Len(s) >= Len(prefix)
    /\ SubSeq(s, 1, Len(prefix)) = prefix

----------------------------------------------------------------------------
(* Item and the updaters *)

Item(name, sellIn, quality) ==
    [name |-> name, sellIn |-> sellIn, quality |-> quality]

maxQuality == 25
minQuality == 0

Max(a, b) == IF a >= b THEN a ELSE b
Min(a, b) == IF a <= b THEN a ELSE b

adjustQualityLimits_NoFloor(item) ==
    [item EXCEPT !.quality = Min(maxQuality, item.quality)]

adjustQualityLimits(item) ==
    [item EXCEPT !.quality = Max(minQuality, Min(maxQuality, item.quality))]

CheeseUpdater_Ceiling50(item) ==
    LET i1 == [item EXCEPT !.sellIn = item.sellIn - 1]
        increase == IF i1.sellIn < 0 THEN 2 ELSE 1
    IN  [i1 EXCEPT !.quality = Max(minQuality, Min(50, i1.quality + increase))]

CheeseUpdater(item) ==
    LET i1 == [item EXCEPT !.sellIn = item.sellIn - 1]
        increase == IF i1.sellIn < 0 THEN 2 ELSE 1
        i2 == [i1 EXCEPT !.quality = i1.quality + increase]
    IN  adjustQualityLimits(i2)

RamenUpdater_Clamped(item) == adjustQualityLimits(item)

RamenUpdater_Aging(item) == [item EXCEPT !.sellIn = item.sellIn - 1]

RamenUpdater(item) == item

OrganicUpdater_SameAsNormal(item) ==
    LET i1 == [item EXCEPT !.sellIn = item.sellIn - 1]
        degradation == IF i1.sellIn < 0 THEN 2 ELSE 1
        i2 == [i1 EXCEPT !.quality = i1.quality - degradation]
    IN  adjustQualityLimits(i2)

OrganicUpdater(item) ==
    LET i1 == [item EXCEPT !.sellIn = item.sellIn - 1]
        degradation == IF i1.sellIn < 0 THEN 4 ELSE 2
        i2 == [i1 EXCEPT !.quality = i1.quality - degradation]
    IN  adjustQualityLimits(i2)

NormalUpdater_RateBeforeDecrement(item) ==
    LET degradation == IF item.sellIn < 0 THEN 2 ELSE 1
        i1 == [item EXCEPT !.sellIn = item.sellIn - 1]
        i2 == [i1 EXCEPT !.quality = i1.quality - degradation]
    IN  adjustQualityLimits(i2)

NormalUpdater(item) ==
    LET i1 == [item EXCEPT !.sellIn = item.sellIn - 1]
        degradation == IF i1.sellIn < 0 THEN 2 ELSE 1
        i2 == [i1 EXCEPT !.quality = i1.quality - degradation]
    IN  adjustQualityLimits(i2)

\* updater.update(item), dispatched on the updater object
update(updater, item) ==
    CASE updater = "CheeseUpdater"  -> CheeseUpdater(item)
      [] updater = "RamenUpdater"   -> RamenUpdater(item)
      [] updater = "OrganicUpdater" -> OrganicUpdater(item)
      [] updater = "NormalUpdater"  -> NormalUpdater(item)

----------------------------------------------------------------------------
(* The updater lookup *)

\* Map.get on namedUpdaterMatcher; "undefined" when the key is absent
namedUpdaterMatcher(key) ==
    IF key = cheddar_cheese THEN "CheeseUpdater"
    ELSE IF key = instant_ramen THEN "RamenUpdater"
    ELSE "undefined"

\* the fallback entries in their order: the matcher and the updater of each
fallbackMatcher ==
    << [matches |-> "organic", updater |-> "OrganicUpdater"],
       [matches |-> "any",     updater |-> "NormalUpdater"] >>

matches(entry, name) ==
    IF entry.matches = "organic"
    THEN startsWith(toLowerCase(name), organic)
    ELSE TRUE

\* Array.prototype.find: the first entry that matches
find(name) ==
    LET hit == {i \in DOMAIN fallbackMatcher : matches(fallbackMatcher[i], name)}
        first == CHOOSE i \in hit : \A j \in hit : i <= j
    IN  fallbackMatcher[first]

getUpdater(item) ==
    LET lowerName == toLowerCase(item.name)
        named == namedUpdaterMatcher(lowerName)
    IN  IF named # "undefined" THEN named ELSE find(item.name).updater

----------------------------------------------------------------------------
(* StoreInventory *)

Arrays == 1..3

\* a new array: a cell no live reference points to
NewArray(live) == CHOOSE a \in Arrays : a \notin live

\* cells no reference points to hold nothing
Collect(as, live) == [a \in Arrays |-> IF a \in live THEN as[a] ELSE <<>>]

constructor_Aliased(os, as, input) ==
    [objs |-> os, arrs |-> as, items |-> input]

\* this.items = items.map(item => new Item(item.name, item.sellIn, item.quality))
constructor(os, as, input) ==
    LET src == as[input]
        n == Len(src)
        base == Len(os)
        copies == [i \in 1..n |->
                     Item(os[src[i]].name, os[src[i]].sellIn, os[src[i]].quality)]
        own == NewArray({input})
    IN  [objs |-> os \o copies,
         arrs |-> [as EXCEPT ![own] = [i \in 1..n |-> base + i]],
         items |-> own]

\* this.items.forEach(item => getUpdater(item).update(item)), from index i on
RECURSIVE forEachUpdate(_, _, _)
forEachUpdate(os, list, i) ==
    IF i > Len(list) THEN os
    ELSE LET o == list[i]
             updater == getUpdater(os[o])
         IN  forEachUpdate([os EXCEPT ![o] = update(updater, os[o])], list, i + 1)

notExpired_Through5(item) == item.sellIn >= -5

notExpired_Before4(item) == item.sellIn > -4

\* the predicate of the filter: item => item.sellIn >= -4
notExpired(item) == item.sellIn >= -4

\* this.items.filter(...)
filter(os, list) == SelectSeq(list, LAMBDA o : notExpired(os[o]))

filterThenUpdate(os, as, own) ==
    LET kept == filter(os, as[own])
    IN  [objs |-> forEachUpdate(os, kept, 1), kept |-> kept]

\* the two statements of updateQuality before its return
updateThenFilter(os, as, own) ==
    LET os1 == forEachUpdate(os, as[own], 1)
    IN  [objs |-> os1, kept |-> filter(os1, as[own])]

---------------------------------------------------------------------------------------------------------------------------------------------------
(* Initial states: the state after new StoreInventory(input) *)

Names == {Apple, InstantRaman, CheddarCheese, InstantRamen, OrganicApple, ORGANIC}

\* <<sellIn, quality>> of the items handed to the constructor
Levels == { <<1, 10>>, <<0, 10>>, <<1, -2>>, <<0, 30>>, <<-4, 10>>, <<-5, 30>> }

Pool == {Item(n, l[1], l[2]) : n \in Names, l \in Levels}

CallerPool == {Item(Apple, 0, 10), Item(InstantRamen, -4, 30)}

InitWith(pool) ==
    \E n \in 0..MaxItems :
      \E input \in [1..n -> pool] :
        LET as0 == [a \in Arrays |-> IF a = 1 THEN [i \in 1..n |-> i] ELSE <<>>]
            made == constructor(input, as0, 1)
        IN  /\ objs = made.objs
            /\ arrs = made.arrs
            /\ inputItems = 1
            /\ items = made.items
            /\ returned = 0
            /\ passed = 1..n
            /\ days = 0
            /\ callerOps = 0

Init == InitWith(Pool)

InitCaller == InitWith(CallerPool)

----------------------------------------------------------------------------
(* Operations of StoreInventory *)

\* getItems(): return [...this.items]
getItems ==
    LET snap == NewArray({inputItems, items})
        as1 == [arrs EXCEPT ![snap] = arrs[items]]
    IN  /\ returned' = snap
        /\ arrs' = Collect(as1, {inputItems, items, snap})
        /\ UNCHANGED <<objs, inputItems, items, passed, days, callerOps>>

\* updateQuality(): update every item, drop the expired ones, return getItems()
updateQuality ==
    /\ days < MaxDays
    /\ LET r == updateThenFilter(objs, arrs, items)
           own == NewArray({inputItems})
           as1 == [arrs EXCEPT ![own] = r.kept]
           snap == NewArray({inputItems, own})
           as2 == [as1 EXCEPT ![snap] = as1[own]]
       IN  /\ objs' = r.objs
           /\ items' = own
           /\ returned' = snap
           /\ arrs' = Collect(as2, {inputItems, own, snap})
    /\ days' = days + 1
    /\ UNCHANGED <<inputItems, passed, callerOps>>

\* the driver: the inventory is read and updated once a day
Next == getItems \/ updateQuality

Spec == Init /\ [][Next]_vars

----------------------------------------------------------------------------
(* A caller that keeps its references and writes through them *)

WriteSellIns == {-5}
WriteQualities == {40}
WriteNames == {InstantRamen}

\* the arrays the caller holds: its input list and the list last returned
CallerArrays == {inputItems} \cup (IF returned = 0 THEN {} ELSE {returned})

\* list[i].sellIn = v, list[i].quality = v or list[i].name = v
callerWrite ==
    /\ callerOps < MaxCallerOps
    /\ \E a \in CallerArrays : \E i \in DOMAIN arrs[a] :
         LET o == arrs[a][i]
         IN  \/ \E v \in WriteSellIns : objs' = [objs EXCEPT ![o].sellIn = v]
             \/ \E v \in WriteQualities : objs' = [objs EXCEPT ![o].quality = v]
             \/ \E v \in WriteNames : objs' = [objs EXCEPT ![o].name = v]
    /\ callerOps' = callerOps + 1
    /\ UNCHANGED <<arrs, inputItems, items, returned, passed, days>>

\* list.pop()
callerPop ==
    /\ callerOps < MaxCallerOps
    /\ \E a \in CallerArrays :
         /\ arrs[a] # <<>>
         /\ arrs' = [arrs EXCEPT ![a] = SubSeq(arrs[a], 1, Len(arrs[a]) - 1)]
    /\ callerOps' = callerOps + 1
    /\ UNCHANGED <<objs, inputItems, items, returned, passed, days>>

\* list.push(new Item(...))
callerPush ==
    /\ callerOps < MaxCallerOps
    /\ \E a \in CallerArrays : \E it \in CallerPool :
         /\ objs' = Append(objs, it)
         /\ arrs' = [arrs EXCEPT ![a] = Append(arrs[a], Len(objs) + 1)]
    /\ callerOps' = callerOps + 1
    /\ UNCHANGED <<inputItems, items, returned, passed, days>>

NextCaller == getItems \/ updateQuality \/ callerWrite \/ callerPop \/ callerPush

SpecCaller == InitCaller /\ [][NextCaller]_vars

----------------------------------------------------------------------------
(* Vocabulary of the properties *)

Range(f) == {f[i] : i \in DOMAIN f}

\* the Item objects the inventory owns now
Owned == Range(arrs[items])

\* what getItems() reports, by value
OwnedView == [i \in DOMAIN arrs[items] |-> objs[arrs[items][i]]]

\* the caller's side of the constructor call, by value
InputView == <<arrs[inputItems], [o \in passed |-> objs[o]]>>

\* the copies the constructor made, and the input item each was copied from
Made == {o \in DOMAIN objs : o > Cardinality(passed)}
Origin(o) == objs[o - Cardinality(passed)]

IsRamen(name) == toLowerCase(name) = instant_ramen
IsCheese(name) == toLowerCase(name) = cheddar_cheese
IsOrganic(name) ==
    /\ ~IsRamen(name)
    /\ ~IsCheese(name)
    /\ startsWith(toLowerCase(name), organic)
IsStandard(name) ==
    /\ ~IsRamen(name)
    /\ ~IsCheese(name)
    /\ ~startsWith(toLowerCase(name), organic)

clamp(v, lo, hi) == IF v < lo THEN lo ELSE IF v > hi THEN hi ELSE v

\* a step that is one updateQuality call
UpdateStep == days' = days + 1

\* a step in which the caller writes through one of its references
CallerStep == callerOps' = callerOps + 1

\* the k-th element (k = 1, 2, ...) of a set of numbers, in increasing order
Nth(S, k) == CHOOSE i \in S : Cardinality({j \in S : j < i}) = k - 1

----------------------------------------------------------------------------
(* C1: after one or more updateQuality calls, every item still in the      *)
(* inventory whose name is not 'instant ramen' (in any case) has a quality *)
(* between 0 and 25, whatever quality it was constructed with.             *)
C1_QualityBounds ==
    days >= 1 =>
      \A o \in Owned :
        ~IsRamen(objs[o].name) => objs[o].quality >= 0 /\ objs[o].quality <= 25

\* an item constructed with quality 30 and one constructed with quality -2
\* are both in the inventory after a call
C1_Witness ==
    /\ days = 1
    /\ \E o \in Owned : ~IsRamen(objs[o].name) /\ Origin(o).quality = 30
    /\ \E o \in Owned : ~IsRamen(objs[o].name) /\ Origin(o).quality = -2

(* C2: one updateQuality call updates every owned item and then filters:   *)
(* the owned list afterwards, and the returned snapshot, are exactly the   *)
(* previously owned items whose sellIn after the update is >= -4, in their *)
(* previous order; no item with sellIn <= -5 is left.                      *)
C2_Eviction ==
    [][UpdateStep =>
         LET old == arrs[items]
             new == arrs'[items']
             keep == {i \in DOMAIN old : objs'[old[i]].sellIn >= -4}
         IN  /\ Len(new) = Cardinality(keep)
             /\ \A k \in DOMAIN new : new[k] = old[Nth(keep, k)]
             /\ arrs'[returned'] = new
             /\ \A k \in DOMAIN new : ~(objs'[new[k]].sellIn <= -5)]_vars

\* the first of two items was dropped by the first call, the second was kept
\* with sellIn -4, which it reached in that call
C2_Witness ==
    /\ days = 1
    /\ Cardinality(passed) = 2
    /\ Len(arrs[items]) = 1
    /\ arrs[returned] = arrs[items]
    /\ arrs[items][1] = 4
    /\ objs[3].sellIn = -5 /\ Origin(3).sellIn = -4
    /\ objs[4].sellIn = -1 /\ Origin(4).sellIn = 0

(* C3: an item named 'instant ramen' (in any case) keeps the sellIn and    *)
(* the quality it was constructed with through any number of               *)
(* updateQuality calls, also a quality outside 0..25.                      *)
C3_RamenUnchanged ==
    \A o \in Made :
      IsRamen(objs[o].name) =>
        /\ objs[o].sellIn = Origin(o).sellIn
        /\ objs[o].quality = Origin(o).quality

\* after two calls a ramen item still has quality 30
C3_Witness ==
    /\ days = 2
    /\ \E o \in Owned : IsRamen(objs[o].name) /\ objs[o].quality = 30

(* C4: for an item whose name is neither 'cheddar cheese' nor 'instant     *)
(* ramen' and does not start with 'organic' (in any case), one             *)
(* updateQuality call sets sellIn' = sellIn - 1 and                        *)
(* quality' = clamp(quality - d, 0, 25), d = 2 if sellIn' < 0, else 1.     *)
C4_StandardRule ==
    [][UpdateStep =>
         \A o \in Owned :
           IsStandard(objs[o].name) =>
             LET d == IF objs[o].sellIn - 1 < 0 THEN 2 ELSE 1
             IN  /\ objs'[o].sellIn = objs[o].sellIn - 1
                 /\ objs'[o].quality = clamp(objs[o].quality - d, 0, 25)
                 /\ objs'[o].name = objs[o].name]_vars

\* sellIn 0, quality 10 became sellIn -1, quality 8, for a name that no rule
\* knows ("Instant Raman")
C4_Witness ==
    /\ days = 1
    /\ \E o \in Made :
         /\ objs[o].name = InstantRaman
         /\ IsStandard(objs[o].name)
         /\ Origin(o).sellIn = 0 /\ Origin(o).quality = 10
         /\ objs[o].sellIn = -1 /\ objs[o].quality = 8

(* C5: for an item named 'cheddar cheese' (in any case), one updateQuality *)
(* call sets sellIn' = sellIn - 1 and quality' = clamp(quality + g, 0, 25),*)
(* g = 2 if sellIn' < 0, else 1; the ceiling is 25.                        *)
C5_AppreciatingRule ==
    [][UpdateStep =>
         \A o \in Owned :
           IsCheese(objs[o].name) =>
             LET g == IF objs[o].sellIn - 1 < 0 THEN 2 ELSE 1
             IN  /\ objs'[o].sellIn = objs[o].sellIn - 1
                 /\ objs'[o].quality = clamp(objs[o].quality + g, 0, 25)
                 /\ objs'[o].name = objs[o].name]_vars

\* sellIn 0, quality 10 became sellIn -1, quality 12, and a quality of 30
\* came down to the ceiling of 25
C5_Witness ==
    /\ days = 1
    /\ \E o \in Made :
         /\ objs[o].name = CheddarCheese
         /\ Origin(o).sellIn = 0 /\ Origin(o).quality = 10
         /\ objs[o].sellIn = -1 /\ objs[o].quality = 12
    /\ \E o \in Made :
         /\ IsCheese(objs[o].name)
         /\ Origin(o).quality = 30 /\ objs[o].quality = 25

(* C6: for an item whose name is neither 'cheddar cheese' nor 'instant     *)
(* ramen' and starts with 'organic' (in any case), one updateQuality call  *)
(* sets sellIn' = sellIn - 1 and quality' = clamp(quality - d, 0, 25),     *)
(* d = 4 if sellIn' < 0, else 2: twice the standard degradation.           *)
C6_FastDegradingRule ==
    [][UpdateStep =>
         \A o \in Owned :
           IsOrganic(objs[o].name) =>
             LET standard == IF objs[o].sellIn - 1 < 0 THEN 2 ELSE 1
                 d == 2 * standard
             IN  /\ objs'[o].sellIn = objs[o].sellIn - 1
                 /\ objs'[o].quality = clamp(objs[o].quality - d, 0, 25)
                 /\ objs'[o].name = objs[o].name]_vars

\* "Organic Apple" went from sellIn 0, quality 10 to quality 6 and "ORGANIC"
\* from sellIn 1, quality 10 to quality 8
C6_Witness ==
    /\ days = 1
    /\ \E o \in Made :
         /\ objs[o].name = OrganicApple
         /\ Origin(o).sellIn = 0 /\ Origin(o).quality = 10
         /\ objs[o].sellIn = -1 /\ objs[o].quality = 6
    /\ \E o \in Made :
         /\ objs[o].name = ORGANIC
         /\ Origin(o).sellIn = 1 /\ Origin(o).quality = 10
         /\ objs[o].sellIn = 0 /\ objs[o].quality = 8

\* the items at the boundary before a call: sellIn = -4
AtBoundary(o) == objs[o].sellIn = -4

\* what the call does to an item at the boundary
RemovedAtBoundary(o) ==
    /\ objs'[o].sellIn = -5
    /\ o \notin Range(arrs'[items'])
    /\ o \notin Range(arrs'[returned'])

(* C7 as stated: an item of any category with sellIn = -4 before an        *)
(* updateQuality call has sellIn -5 after it, is absent from the returned  *)
(* snapshot, and the owned collection is smaller by one for it.            *)
C7_RemovalAnyCategory ==
    [][UpdateStep =>
         /\ \A o \in Owned : AtBoundary(o) => RemovedAtBoundary(o)
         /\ Len(arrs'[items']) <=
              Len(arrs[items]) - Cardinality({o \in Owned : AtBoundary(o)})]_vars

(* C7 amended: an item whose name is not 'instant ramen' (in any case)     *)
(* with sellIn = -4 before an updateQuality call has sellIn -5 after it,   *)
(* is absent from the returned snapshot, and the owned collection is       *)
(* smaller by one for it.                                                  *)
C7_RemovalAtBoundary ==
    [][UpdateStep =>
         LET going == {o \in Owned : AtBoundary(o) /\ ~IsRamen(objs[o].name)}
         IN  /\ \A o \in going : RemovedAtBoundary(o)
             /\ Len(arrs'[items']) <= Len(arrs[items]) - Cardinality(going)]_vars

\* a single item constructed with sellIn -4 is gone after one call, with
\* sellIn -5, and the inventory is empty
C7_Witness ==
    /\ days = 1
    /\ Cardinality(passed) = 1
    /\ Origin(2).sellIn = -4
    /\ ~IsRamen(objs[2].name)
    /\ objs[2].sellIn = -5
    /\ arrs[items] = <<>>
    /\ arrs[returned] = <<>>

(* C8: the constructor copies its input: a step that changes an Item       *)
(* object passed to the constructor, or the input list, changes nothing    *)
(* of what the inventory reports, and a step that changes what the         *)
(* inventory reports (an updateQuality call) changes neither those         *)
(* objects nor the list.                                                   *)
C8_ConstructionIsolation ==
    [][InputView' = InputView \/ OwnedView' = OwnedView]_vars

\* the caller wrote quality 40 into an object it had passed and popped its
\* list, and after an updateQuality call the inventory still reports the
\* copy it made
C8_Witness ==
    /\ days = 1
    /\ callerOps = 2
    /\ Cardinality(passed) = 1
    /\ arrs[inputItems] = <<>>
    /\ objs[1].quality = 40
    /\ Len(arrs[items]) = 1
    /\ objs[arrs[items][1]].name = Apple
    /\ objs[arrs[items][1]].quality = 8

(* C9: external references cannot change the inventory's own state: a      *)
(* write of the caller through an Item it got from getItems() or           *)
(* updateQuality(), or a change of the returned list, leaves what the      *)
(* inventory reports unchanged.                                            *)
C9_SnapshotIsolation ==
    [][CallerStep => OwnedView' = OwnedView]_vars

(* C10: an item whose name is not 'instant ramen' (in any case) and that   *)
(* was constructed with sellIn s is, after k >= 1 updateQuality calls, in  *)
(* the inventory exactly if s - k >= -4, and while it is there its sellIn  *)
(* is s - k; so it leaves after s + 5 calls (or the first) and never comes *)
(* back.                                                                   *)
C10_Lifetime ==
    days >= 1 =>
      \A o \in Made :
        ~IsRamen(objs[o].name) =>
          /\ o \in Owned <=> Origin(o).sellIn - days >= -4
          /\ o \in Owned => objs[o].sellIn = Origin(o).sellIn - days
          /\ o \notin Owned => objs[o].sellIn <= -5

\* an item constructed with sellIn 1 was fresh, then expired, and is gone
\* after six calls (not after five) with sellIn -5
C10_Witness ==
    /\ days = 6
    /\ \E o \in Made :
         /\ ~IsRamen(objs[o].name)
         /\ Origin(o).sellIn = 1
         /\ objs[o].sellIn = -5
         /\ o \notin Owned

\* the phase of an item, read from its sellIn
Phase(sellIn) ==
    IF sellIn >= 0 THEN "fresh" ELSE IF sellIn <= -5 THEN "removed" ELSE "expired"

(* C11 as stated: an item named 'instant ramen' (in any case) never        *)
(* changes phase under updateQuality, whatever sellIn it was constructed   *)
(* with, also below 0 and at or below -5, and it is still in the owned     *)
(* collection after any number of updateQuality calls.                     *)
C11_RamenNeverRemoved ==
    \A o \in Made :
      IsRamen(objs[o].name) =>
        /\ Phase(objs[o].sellIn) = Phase(Origin(o).sellIn)
        /\ o \in Owned

(* C11 amended: an item named 'instant ramen' (in any case) never changes  *)
(* phase under updateQuality, whatever sellIn it was constructed with; it  *)
(* is still in the owned collection after any number of updateQuality      *)
(* calls exactly if it was constructed with sellIn >= -4, and one          *)
(* constructed with sellIn <= -5 is removed by the first call.             *)
C11_RamenPhase ==
    \A o \in Made :
      IsRamen(objs[o].name) =>
        /\ Phase(objs[o].sellIn) = Phase(Origin(o).sellIn)
        /\ days = 0 => o \in Owned
        /\ days >= 1 => (o \in Owned <=> Origin(o).sellIn >= -4)

\* after six calls a ramen item constructed with sellIn -4 is still owned,
\* at sellIn -4, and one constructed with sellIn -5 is not
C11_Witness ==
    /\ days = 6
    /\ \E o \in Owned :
         /\ IsRamen(objs[o].name)
         /\ Origin(o).sellIn = -4 /\ objs[o].sellIn = -4
    /\ \E o \in Made :
         /\ IsRamen(objs[o].name)
         /\ Origin(o).sellIn = -5 /\ objs[o].sellIn = -5
         /\ o \notin Owned

====
